---- MODULE Spec2Model ----
\* Credential and session management of the Google Workspace MCP server:
\* the credential resolver (auth/google_auth.py get_credentials), the OAuth
\* callback (handle_auth_callback), the token verifier
\* (auth/google_remote_auth_provider.py verify_token), durable credential
\* storage (local directory or S3 prefix) and the in-memory
\* OAuth21SessionStore.
EXTENDS Integers, Sequences, FiniteSets, TLC

\* ------------------------------------------------------------------ bounds
MaxTime == 1
MaxTok == 2
TokenLifetime == 1
MaxCallbacks == 2
MaxRefreshes == 1
MaxFlows == 1
MaxPage == 2
MaxClients == 3
\* Tokens Google mints while calls run on worker threads.
MaxRaceTok == 3

\* ------------------------------------------------------------- value sets
\* Python None of a string-valued field.
None == "None"
\* Python None of credentials.expiry.
NoExpiry == -1
\* Python None of credentials.token.
NoToken == 0

Emails == {"e1", "e2"}
UserIds == {"u1"}
Sids == {"s1"}
GrantChoices == {{"A", "B"}}
RequiredChoices == {{"A"}, {"A", "C"}}

\* The refresh token Google issued to user e; None when no offline access.
RT == [e \in Emails |-> "rt-" \o e]
OwnerOf(rt) == CHOOSE e \in Emails : RT[e] = rt

\* Values of os.urandom(16).hex(), and a state no flow was started with.
OAuthStates == {"x1", "x2"}
ForgedState == "forged"

GoogleIssuer == "https://accounts.google.com"
TokenUri == "https://oauth2.googleapis.com/token"
ClientId == "client-id"
ClientSecret == "client-secret"

\* ------------------------------------------------------------ path strings
\* Paths are sequences of one-character strings.
S3Dir == <<"s", "3", ":", "/", "/", "b", "/", "p">>
LocalDir == <<"/", "d">>
BaseDirs == {S3Dir, LocalDir}

\* The path argument None.
NonePath == <<None>>

\* A character left in the case it has.
SameChar(ch) == ch

Lower(ch) ==
  CASE ch = "S" -> "s" [] ch = "J" -> "j" [] ch = "O" -> "o" [] ch = "N" -> "n"
    [] OTHER -> ch

RECURSIVE Strip(_)
Strip(p) ==
  IF p = <<>> THEN p
  ELSE IF Head(p) = " " THEN Strip(Tail(p))
  ELSE IF p[Len(p)] = " " THEN Strip(SubSeq(p, 1, Len(p) - 1))
  ELSE p

S3Scheme == <<"s", "3", ":", "/", "/">>

\* auth/s3_storage.py is_s3_path: path.strip().lower().startswith("s3://")
is_s3_path(path) ==
  LET q == Strip(path) IN
  /\ path # NonePath
  /\ path # <<>>
  /\ Len(q) >= Len(S3Scheme)
  /\ \A i \in 1..Len(S3Scheme) : Lower(q[i]) = S3Scheme[i]

\* ------------------------------------------------------------------- state
VARIABLES
  sessions,              \* OAuth21SessionStore._sessions: email -> session_info
  mcp_map,               \* OAuth21SessionStore mcp session id -> email index
  durable,               \* blobs under credentials_base_dir: identifier -> blob
                         \* (SpecStorage: the blobs of every location, by place)
  credentials_base_dir,  \* DEFAULT_CREDENTIALS_DIR (GOOGLE_MCP_CREDENTIALS_DIR)
  single_user_mode,      \* os.getenv("MCP_SINGLE_USER_MODE") == "1"
  now,                   \* wall clock
  issued,                \* Google's side: the access tokens minted so far,
                         \* issued[n] = the n-th token, its account, its
                         \* expiry and its scopes
  auth_urls,             \* the state tokens of the authorization URLs that
                         \* start_auth_flow has handed out
  lock,                  \* OAuth21SessionStore._lock: the thread that holds
                         \* it, "free" when none does
  scan,                  \* the _attempt_token_refresh call in progress: its
                         \* position in the scan of store._sessions
  s3_client,             \* auth/s3_storage.py _s3_client (cached, 0 for None)
                         \* and the number of clients boto3 has built
  workers                \* the calls running on the worker threads of
                         \* asyncio.to_thread: per thread, where the call is
                         \* and its local variables

vars == <<sessions, mcp_map, durable, credentials_base_dir, single_user_mode,
          now, issued, auth_urls, lock, scan, s3_client, workers>>

\* -------------------------------------------------------------- access tokens
\* An access token is a number written in base PrefixBase: its last digit is
\* the serial number Google minted it under, the digits before it stand for
\* its first 20 characters. A token below PrefixBase is shorter than 20
\* characters.
PrefixBase == 10
\* First characters Google gives the tokens of an authorization.
Prefixes == {1}
\* token[:20]
Prefix20(tok) == tok \div PrefixBase
\* len(token) >= 20
LongToken(tok) == tok >= PrefixBase
nextTok == Len(issued)

\* ------------------------------------------------- google Credentials object
\* google.oauth2.credentials.Credentials.expired
Expired(c) == c.expiry # NoExpiry /\ now >= c.expiry

\* google.oauth2.credentials.Credentials.valid
Valid(c) == c.token # NoToken /\ ~Expired(c)

Creds(tok, rt, uri, cid, sec, scopes, expiry, idt) ==
  [token |-> tok, refresh_token |-> rt, token_uri |-> uri, client_id |-> cid,
   client_secret |-> sec, scopes |-> scopes, expiry |-> expiry, id_token |-> idt]

\* The access token Google mints next for an authorization whose tokens
\* start with prefix p.
FreshToken(p) == p * PrefixBase + nextTok + 1

\* The same when Google has minted n tokens so far.
FreshTokenAt(p, n) == p * PrefixBase + n + 1

\* credentials.refresh raises RefreshError without contacting the token
\* endpoint when the bundle lacks one of the fields a refresh needs.
CanRefresh(c) ==
  /\ c.refresh_token # None
  /\ c.token_uri # None
  /\ c.client_id # None
  /\ c.client_secret # None

\* credentials.refresh(Request()) answered with a new access token that
\* replaces old: tokens of one authorization share their first characters.
\* The token and expiry change, the id_token is the one of the response (idt
\* is the email claim it carries, None when the response has no id_token).
Refreshed(c, old, idt) ==
  [c EXCEPT !.token = FreshToken(Prefix20(old)), !.expiry = now + TokenLifetime,
            !.id_token = idt]

\* ----------------------------------------------------- OAuth21SessionStore
SessionInfo(tok, rt, uri, cid, sec, scopes, expiry, session_id, mcp_sid, issuer) ==
  [access_token |-> tok, refresh_token |-> rt, token_uri |-> uri,
   client_id |-> cid, client_secret |-> sec, scopes |-> scopes,
   expiry |-> expiry, session_id |-> session_id, mcp_session_id |-> mcp_sid,
   issuer |-> issuer]

\* A store is the pair of its primary map and its mcp-session index.
Store(s, m) == [sessions |-> s, mcp_map |-> m]

Put(f, k, v) == [x \in DOMAIN f \cup {k} |-> IF x = k THEN v ELSE f[x]]
Drop(f, k) == [x \in DOMAIN f \ {k} |-> f[x]]

\* store_session: upsert by email, last write wins; the mcp-session index is
\* updated in the same critical section.
store_session(st, email, info) ==
  Store(Put(st.sessions, email, info),
        IF info.mcp_session_id # None
        THEN Put(st.mcp_map, info.mcp_session_id, email)
        ELSE st.mcp_map)

\* remove_session: idempotent; clears every index entry of that email.
remove_session(st, email) ==
  Store(Drop(st.sessions, email),
        [x \in {y \in DOMAIN st.mcp_map : st.mcp_map[y] # email} |-> st.mcp_map[x]])

\* get_user_by_mcp_session
get_user_by_mcp_session(st, sid) ==
  IF sid \in DOMAIN st.mcp_map THEN st.mcp_map[sid] ELSE None

\* get_credentials(email): the Credentials object of a session record
CredsOfSession(info) ==
  Creds(info.access_token, info.refresh_token, info.token_uri, info.client_id,
        info.client_secret, info.scopes, info.expiry, None)

\* get_credentials_by_mcp_session: the set holding the bundle ({} for None)
get_credentials_by_mcp_session(st, sid) ==
  LET e == get_user_by_mcp_session(st, sid) IN
  IF e # None /\ e \in DOMAIN st.sessions
  THEN {CredsOfSession(st.sessions[e])} ELSE {}

\* -------------------------------------------------------- credential codec
\* credentials.expiry.isoformat() if credentials.expiry else None
IsoFormat(expiry) ==
  IF expiry = NoExpiry THEN [kind |-> "null", t |-> 0]
  ELSE [kind |-> "iso", t |-> expiry]

\* datetime.fromisoformat(creds_data["expiry"]) when the field is truthy; an
\* unparseable string is logged and leaves expiry None.
ParseExpiry(iso) == IF iso.kind = "iso" THEN iso.t ELSE NoExpiry

\* creds_data that keeps the access token and drops the refresh token.
EncodeAccessOnly(c, user_google_email) ==
  [kind |-> "json",
   data |-> [token |-> c.token, refresh_token |-> None,
             token_uri |-> c.token_uri, client_id |-> c.client_id,
             client_secret |-> c.client_secret, scopes |-> c.scopes,
             expiry |-> IsoFormat(c.expiry), user_email |-> user_google_email]]

\* creds_data of save_credentials_to_file
Encode(c, user_google_email) ==
  [kind |-> "json",
   data |-> [token |-> c.token, refresh_token |-> c.refresh_token,
             token_uri |-> c.token_uri, client_id |-> c.client_id,
             client_secret |-> c.client_secret, scopes |-> c.scopes,
             expiry |-> IsoFormat(c.expiry), user_email |-> user_google_email]]

\* A blob whose content is not valid JSON.
CorruptBlob == [kind |-> "corrupt"]

\* Credentials(...) built by load_credentials_from_file
Decode(blob) ==
  Creds(blob.data.token, blob.data.refresh_token, blob.data.token_uri,
        blob.data.client_id, blob.data.client_secret, blob.data.scopes,
        ParseExpiry(blob.data.expiry), None)

\* Credentials(...) built by _find_any_credentials: no expiry is passed
DecodeAny(blob) ==
  Creds(blob.data.token, blob.data.refresh_token, blob.data.token_uri,
        blob.data.client_id, blob.data.client_secret, blob.data.scopes,
        NoExpiry, None)

\* --------------------------------------------------------- durable storage
\* Backend faults a call can meet while it reads storage.
Faults(base_dir) ==
  IF is_s3_path(base_dir) THEN {"none", "NoSuchBucket", "AccessDenied"}
  ELSE {"none", "IOError"}

Loaded(cs, exc) == [creds |-> cs, raised |-> exc]

\* load_credentials_from_file: the bundle found ({} for None) and the
\* exception that escapes ("none" when the call returns).
load_credentials_from_file(dur, ident, base_dir, fault) ==
  IF is_s3_path(base_dir)
  THEN \* s3_file_exists raises ClientError for a missing bucket or a denial
       IF fault # "none" THEN Loaded({}, "ClientError")
       ELSE IF ident \notin DOMAIN dur THEN Loaded({}, "none")
       \* s3_download_json turns JSONDecodeError into ValueError, which the
       \* except (IOError, json.JSONDecodeError, KeyError) clause lets through
       ELSE IF dur[ident].kind = "corrupt" THEN Loaded({}, "ValueError")
       ELSE Loaded({Decode(dur[ident])}, "none")
  ELSE IF ident \notin DOMAIN dur THEN Loaded({}, "none")
       ELSE IF fault # "none" THEN Loaded({}, "none")
       ELSE IF dur[ident].kind = "corrupt" THEN Loaded({}, "none")
       ELSE Loaded({Decode(dur[ident])}, "none")

\* Identifiers whose blob _find_any_credentials can return: the first file of
\* the listing that decodes. os.listdir gives no order, so every decodable
\* blob can be the first one.
Decodable(dur) == {i \in DOMAIN dur : dur[i].kind = "json"}

\* _find_any_credentials: pick is the decodable blob the listing meets first.
\* Every fault ends in one of its except clauses and yields None.
find_any_credentials(dur, fault, pick) ==
  IF fault # "none" \/ pick \notin Decodable(dur) THEN {}
  ELSE {DecodeAny(dur[pick])}

\* A save that names the blob after the email instead of the identifier.
save_under_email(dur, ident, user_google_email, c) ==
  Put(dur, user_google_email, Encode(c, user_google_email))

\* save_credentials_to_file
save_credentials_to_file(dur, ident, user_google_email, c) ==
  Put(dur, ident, Encode(c, user_google_email))

\* A delete that leaves the blob where it is.
delete_keeps(dur, ident) == dur

\* delete_credentials_file: the storage afterwards
delete_credentials_file(dur, ident) == Drop(dur, ident)

\* delete_credentials_file: the value returned
delete_returns(dur, ident, base_dir) ==
  IF is_s3_path(base_dir) THEN TRUE ELSE ident \in DOMAIN dur

\* save_credentials_to_session: stores under the email claim of the id_token,
\* does nothing when the bundle carries no id_token email.
save_credentials_to_session(st, session_id, c) ==
  IF c.id_token # None
  THEN store_session(st, c.id_token,
         SessionInfo(c.token, c.refresh_token, c.token_uri, c.client_id,
                     c.client_secret, c.scopes, c.expiry, None, session_id, None))
  ELSE st

\* load_credentials_from_session
load_credentials_from_session(st, session_id) ==
  get_credentials_by_mcp_session(st, session_id)

\* ------------------------------------------------------------ get_credentials
\* What a call did: the source of the bundle it checked, the branch it left
\* through, the bundle found, the identifiers it read durable storage under
\* ("*" for the directory scan), the answer of the token endpoint if it asked
\* for a refresh, and whether the session-store block was left without a
\* return although it had found a bundle.
Trace(source, branch, found, reads, refresh) ==
  [source |-> source, branch |-> branch, found |-> found, reads |-> reads,
   refresh |-> refresh, fell |-> FALSE]

\* The value returned ({} for None), the exception that escaped, and the
\* store and durable storage the call leaves behind.
Ret(result, raised, st, dur, tr) ==
  [result |-> result, raised |-> raised, store |-> st, durable |-> dur,
   trace |-> tr]

\* Answers of the token endpoint to credentials.refresh: the outcome and
\* whether the response carries an id_token.
RefreshAnswers ==
  {<<"ok", TRUE>>, <<"ok", FALSE>>, <<"RefreshError", FALSE>>,
   <<"transient", FALSE>>}

IdTokenOf(c, ans) == IF ans[2] THEN OwnerOf(c.refresh_token) ELSE None

\* Outcome of credentials.refresh(Request()) for bundle c when the token
\* endpoint would answer ans.
RefreshOutcome(c, ans) == IF CanRefresh(c) THEN ans[1] ELSE "RefreshError"

\* A scope check that passes as soon as one required scope is granted.
HasScopesAny(c, required_scopes) == \E s \in required_scopes : s \in c.scopes

\* all(scope in credentials.scopes for scope in required_scopes)
HasScopes(c, required_scopes) == \A s \in required_scopes : s \in c.scopes

\* get_credentials lines 944-1022: scope check, validity check, refresh.
CheckAndRefresh(c, source, reads, st, dur, user_google_email, required_scopes, client_secrets_path, session_id, ans) ==
  IF ~HasScopes(c, required_scopes)
  THEN Ret({}, "none", st, dur, Trace(source, "scope", {c}, reads, "none"))
  ELSE IF Valid(c)
  THEN Ret({c}, "none", st, dur, Trace(source, "valid", {c}, reads, "none"))
  ELSE IF Expired(c) /\ c.refresh_token # None
  THEN IF client_secrets_path = None
       THEN Ret({}, "none", st, dur, Trace(source, "no-secrets-path", {c}, reads, "none"))
       ELSE IF RefreshOutcome(c, ans) = "ok"
       THEN LET c1 == Refreshed(c, c.token, IdTokenOf(c, ans))
                dur1 == IF user_google_email # None
                        THEN save_credentials_to_file(dur, user_google_email,
                                                      user_google_email, c1)
                        ELSE dur
                st1 == IF user_google_email # None
                       THEN store_session(st, user_google_email,
                              SessionInfo(c1.token, c1.refresh_token, c1.token_uri,
                                          c1.client_id, c1.client_secret, c1.scopes,
                                          c1.expiry, None, session_id, GoogleIssuer))
                       ELSE st
                st2 == IF session_id # None
                       THEN save_credentials_to_session(st1, session_id, c1)
                       ELSE st1
            IN Ret({c1}, "none", st2, dur1, Trace(source, "refreshed", {c}, reads, "ok"))
       \* RefreshError and every other exception: return None
       ELSE Ret({}, "none", st, dur,
                Trace(source, "refresh-failed", {c}, reads, RefreshOutcome(c, ans)))
  ELSE Ret({}, "none", st, dur, Trace(source, "unusable", {c}, reads, "none"))

\* get_credentials lines 877-942: single-user scan, else session lookup and
\* per-identity file lookup; then the common checks.
SlowPath(st, dur, base_dir, single_user, user_google_email, required_scopes, client_secrets_path, session_id, user_id, ans, fault, pick) ==
  IF single_user
  THEN LET found == find_any_credentials(dur, fault, pick) IN
       IF found = {}
       THEN Ret({}, "none", st, dur, Trace("none", "absent", {}, {"*"}, "none"))
       ELSE CheckAndRefresh(CHOOSE c \in found : TRUE, "scan", {"*"}, st, dur,
                            user_google_email, required_scopes,
                            client_secrets_path, session_id, ans)
  ELSE LET fromSession == IF session_id # None
                          THEN load_credentials_from_session(st, session_id)
                          ELSE {}
           credential_identifier == IF user_id # None THEN user_id
                                    ELSE user_google_email
           readsFile == fromSession = {} /\ credential_identifier # None
           loaded == IF readsFile
                     THEN load_credentials_from_file(dur, credential_identifier,
                                                     base_dir, fault)
                     ELSE Loaded({}, "none")
           reads == IF readsFile THEN {credential_identifier} ELSE {}
           \* a bundle loaded from file is cached for the session
           st1 == IF loaded.creds # {} /\ session_id # None
                  THEN save_credentials_to_session(st, session_id,
                                                   CHOOSE c \in loaded.creds : TRUE)
                  ELSE st
           found == IF fromSession # {} THEN fromSession ELSE loaded.creds
       IN IF loaded.raised # "none"
          THEN Ret({}, loaded.raised, st, dur, Trace("none", "raised", {}, reads, "none"))
          ELSE IF found = {}
          THEN Ret({}, "none", st1, dur, Trace("none", "absent", {}, reads, "none"))
          ELSE CheckAndRefresh(CHOOSE c \in found : TRUE,
                               IF fromSession # {} THEN "session" ELSE "file",
                               reads, st1, dur, user_google_email,
                               required_scopes, client_secrets_path,
                               session_id, ans)

\* get_credentials lines 832-875: the OAuth 2.1 session store is asked first
\* when a session id is given.
get_credentials(st, dur, base_dir, single_user, user_google_email, required_scopes, client_secrets_path, session_id, user_id, ans, fault, pick) ==
  LET fast == IF session_id # None
              THEN get_credentials_by_mcp_session(st, session_id) ELSE {}
      c == CHOOSE x \in fast : TRUE
      slow == SlowPath(st, dur, base_dir, single_user, user_google_email,
                       required_scopes, client_secrets_path, session_id,
                       user_id, ans, fault, pick)
  IN IF fast = {} THEN slow
     ELSE IF ~HasScopes(c, required_scopes)
     THEN Ret({}, "none", st, dur, Trace("store", "scope", {c}, {}, "none"))
     ELSE IF Valid(c)
     THEN Ret({c}, "none", st, dur, Trace("store", "valid", {c}, {}, "none"))
     ELSE IF Expired(c) /\ c.refresh_token # None
     THEN IF RefreshOutcome(c, ans) = "ok"
          THEN LET c1 == Refreshed(c, c.token, IdTokenOf(c, ans))
                   user_email == get_user_by_mcp_session(st, session_id)
                   \* token_uri, client_id and client_secret are not passed
                   st1 == IF user_email # None
                          THEN store_session(st, user_email,
                                 SessionInfo(c1.token, c1.refresh_token, None,
                                             None, None, c1.scopes, c1.expiry,
                                             None, session_id, None))
                          ELSE st
               IN Ret({c1}, "none", st1, dur, Trace("store", "refreshed", {c}, {}, "ok"))
          ELSE Ret({}, "none", st, dur,
                   Trace("store", "refresh-failed", {c}, {}, RefreshOutcome(c, ans)))
     \* neither valid nor refreshable: no branch returns, the code goes on
     ELSE [slow EXCEPT !.trace.fell = TRUE]

\* start_auth_flow: a fresh random state is embedded in the authorization
\* URL; urls are the states handed out so far.
oauth_state(urls) == CHOOSE x \in OAuthStates \ urls : TRUE
start_auth_flow(urls) == urls \cup {oauth_state(urls)}

\* flow.fetch_token(authorization_response=...): the state of the response is
\* compared with the state the flow was created with, when it was created
\* with one.
MismatchingState(flow_state, state) == flow_state # None /\ state # flow_state

\* A rejection that saves the bundle under its email before it raises.
RejectAfterSave(st, dur, credentials, branch) ==
  Ret({}, "ValueError", st,
      save_credentials_to_file(dur, credentials.id_token, credentials.id_token,
                               credentials),
      Trace("callback", branch, {credentials}, {}, "none"))

\* handle_auth_callback raises ValueError for a missing email or user id:
\* both raise statements precede every write.
RejectCallback(st, dur, credentials, branch) ==
  Ret({}, "ValueError", st, dur, Trace("callback", branch, {credentials}, {}, "none"))

\* ------------------------------------------------------ handle_auth_callback
\* handle_auth_callback for the Google account `account`: the code exchange
\* (exchange = "ok" or the error fetch_token raises), the userinfo lookup
\* (userinfo_ok) and whether the token response carries a refresh token
\* (offline). A token response whose userinfo lookup yields an email was
\* granted an OpenID scope, so its id_token names that email. save_ok tells
\* whether the write to durable storage succeeds; its exception is raised
\* again by save_credentials_to_file and by the callback.
handle_auth_callback(st, dur, account, prefix, scopes, session_id, user_id, state, exchange, userinfo_ok, offline, save_ok) ==
  LET credentials == Creds(FreshToken(prefix), IF offline THEN RT[account] ELSE None,
                           TokenUri, ClientId, ClientSecret, scopes,
                           now + TokenLifetime, account)
      \* create_oauth_flow(scopes=scopes, redirect_uri=redirect_uri)
      flow_state == None
  IN IF MismatchingState(flow_state, state)
     THEN Ret({}, "MismatchingStateError", st, dur,
              Trace("callback", "state", {}, {}, "none"))
     ELSE IF exchange # "ok"
     THEN Ret({}, exchange, st, dur, Trace("callback", "exchange", {}, {}, "none"))
     \* get_user_info returns None for an invalid bundle or a failed request
     ELSE IF ~userinfo_ok \/ ~Valid(credentials)
     THEN RejectCallback(st, dur, credentials, "no-email")
     ELSE IF user_id = None
     THEN RejectCallback(st, dur, credentials, "no-user-id")
     ELSE IF ~save_ok
     THEN Ret({}, "IOError", st, dur,
              Trace("callback", "save-failed", {credentials}, {}, "none"))
     ELSE LET dur1 == save_credentials_to_file(dur, user_id, account, credentials)
              st1 == store_session(st, account,
                       SessionInfo(credentials.token, credentials.refresh_token,
                                   credentials.token_uri, credentials.client_id,
                                   credentials.client_secret, credentials.scopes,
                                   credentials.expiry, None, session_id,
                                   GoogleIssuer))
              st2 == IF session_id # None
                     THEN save_credentials_to_session(st1, session_id, credentials)
                     ELSE st1
          IN Ret({credentials}, "none", st2, dur1,
                 Trace("callback", "persisted", {credentials}, {}, "none"))

\* ---------------------------------------------------------- Google's ledger
\* Google's record of the token of bundle c, minted now for account in
\* answer to an authorization code ("code") or a refresh token ("refresh").
Minted(c, account, grant) ==
  [token |-> c.token, account |-> account, expiry |-> now + TokenLifetime,
   scopes |-> c.scopes, grant |-> grant, revoked |-> FALSE]

Callbacks == Cardinality({n \in 1..Len(issued) : issued[n].grant = "code"})

\* The token endpoint can still accept a refresh when Google's ledger is iss.
CanMint(iss) ==
  /\ Len(iss) < MaxTok
  /\ Cardinality({n \in 1..Len(iss) : iss[n].grant = "refresh"}) < MaxRefreshes

\* ------------------------------------------------ GoogleRemoteAuthProvider
\* A presented token that does not start with "ya29.": a signed JWT.
JwtToken == -1
\* The user its email claim names.
JwtAccount == "e1"
\* A "ya29." token shorter than 20 characters.
ShortToken == 1
\* A token Google issued to another OAuth client.
ForeignToken == 20
\* A token Google never issued that starts with the characters of prefix p.
ForgedToken(p) == p * PrefixBase

\* token.startswith("ya29.")
IsOpaque(token) == token > 0

\* Orders in which iterating a dict with keys S can meet them.
Perms(S) ==
  {f \in [1..Cardinality(S) -> S] : \A i, j \in 1..Cardinality(S) : i # j => f[i] # f[j]}

\* What _attempt_token_refresh leaves behind: the token returned (NoToken for
\* None), the store, durable storage, the records of the tokens Google
\* minted, the sessions whose refresh was tried and how the scan ended.
Recovery(token, st, dur, minted, tried, ending) ==
  [token |-> token, store |-> st, durable |-> dur, minted |-> minted,
   tried |-> tried, ending |-> ending]

\* First pass of _attempt_token_refresh: the stored access token is the
\* failed token and the record has a refresh token.
ExactMatch(st, failed_token, user_email) ==
  /\ st.sessions[user_email].access_token = failed_token
  /\ st.sessions[user_email].refresh_token # None

\* Second pass: the first 20 characters are those of the failed token.
PrefixMatch(st, failed_token, user_email) ==
  LET stored_token == st.sessions[user_email].access_token IN
  /\ stored_token # NoToken
  /\ LongToken(stored_token) /\ LongToken(failed_token)
  /\ Prefix20(stored_token) = Prefix20(failed_token)
  /\ st.sessions[user_email].refresh_token # None

\* The refresh of the matched session of user_email, answered by the token
\* endpoint with answer ("ok" or "RefreshError"); tried are the sessions whose
\* refresh was tried so far, this one included.
RefreshMatched(st, dur, iss, user_email, tried, answer) ==
  LET session_info == st.sessions[user_email]
      stale == Creds(NoToken, session_info.refresh_token,
                     session_info.token_uri,
                     IF session_info.client_id # None
                     THEN session_info.client_id ELSE ClientId,
                     IF session_info.client_secret # None
                     THEN session_info.client_secret ELSE ClientSecret,
                     session_info.scopes, NoExpiry, None)
      credentials ==
        [stale EXCEPT !.token = FreshTokenAt(Prefix20(session_info.access_token),
                                             Len(iss)),
                      !.expiry = now + TokenLifetime]
  IN IF CanRefresh(stale) /\ answer = "ok"
     THEN Recovery(credentials.token,
            store_session(st, user_email,
              SessionInfo(credentials.token, credentials.refresh_token,
                          credentials.token_uri, credentials.client_id,
                          credentials.client_secret, credentials.scopes,
                          credentials.expiry, session_info.session_id,
                          session_info.mcp_session_id, session_info.issuer)),
            dur,
            <<[token |-> credentials.token,
               account |-> OwnerOf(credentials.refresh_token),
               expiry |-> credentials.expiry, scopes |-> credentials.scopes,
               grant |-> "refresh", revoked |-> FALSE]>>,
            tried, "ok")
     \* RefreshError: the bundle is deleted from both layers; the
     \* loop's next step then finds the dict changed under it and
     \* raises RuntimeError, which the outer except turns into None
     ELSE Recovery(NoToken, remove_session(st, user_email),
                   delete_credentials_file(dur, user_email), <<>>,
                   tried, "RefreshError")

\* _attempt_token_refresh: order is the order in which store._sessions.items()
\* yields the sessions, first the position of the first refresh that the
\* token endpoint does not fail transiently (0 when all do), answer its
\* answer; iss is Google's ledger at the time of the call.
attempt_token_refresh(st, dur, iss, failed_token, order, first, answer) ==
  LET exact(user_email) == ExactMatch(st, failed_token, user_email)
      prefix(user_email) == PrefixMatch(st, failed_token, user_email)
      \* first pass: exact match; second pass: prefix match
      tries == SelectSeq(order, exact) \o SelectSeq(order, prefix)
  IN IF tries = <<>>
     THEN Recovery(NoToken, st, dur, <<>>, tries, "no-match")
     ELSE IF first = 0 \/ first > Len(tries)
     THEN Recovery(NoToken, st, dur, <<>>, tries, "transient")
     ELSE RefreshMatched(st, dur, iss, tries[first], SubSeq(tries, 1, first), answer)

\* Every way a call of _attempt_token_refresh can go in store st.
Recoveries(st, dur, iss, failed_token) ==
  {attempt_token_refresh(st, dur, iss, failed_token, order, first, answer) :
     order \in Perms(DOMAIN st.sessions),
     first \in 0..(2 * Cardinality(DOMAIN st.sessions)),
     answer \in (IF CanMint(iss) THEN {"ok", "RefreshError"}
                 ELSE {"RefreshError"})}

\* Answers of the tokeninfo endpoint for token: 200 with our audience only
\* for a token Google issued to this client that has neither expired nor
\* been revoked.
TokenInfoAnswers(iss, token) ==
  {"non200", "error"}
  \cup (IF \E n \in DOMAIN iss :
              iss[n].token = token /\ ~iss[n].revoked /\ now < iss[n].expiry
        THEN {"ok"} ELSE {})
  \cup (IF \E n \in DOMAIN iss :
              iss[n].token = token /\ ~iss[n].revoked /\ now >= iss[n].expiry
        THEN {"lapsed"} ELSE {})
  \cup (IF token = ForeignToken THEN {"aud"} ELSE {})

\* What verify_token leaves behind: the email of the principal returned
\* (None for no principal), the token it belongs to, the store, durable
\* storage, the tokens minted, per token verified the answer of tokeninfo and
\* the recovery that followed, and the exception that escapes ("none" when
\* the call returns).
Verdict(principal, token, st, dur, minted, steps) ==
  [principal |-> principal, token |-> token, store |-> st, durable |-> dur,
   minted |-> minted, steps |-> steps, raised |-> "none"]

\* verify_token left by an exception that no except clause catches.
Escaped(token, st, dur, steps) ==
  [Verdict(None, token, st, dur, <<>>, steps) EXCEPT !.raised = "Exception"]

\* Whether a call of store_session returns (TRUE) or raises (FALSE).
StoreAnswers == BOOLEAN

\* A record that names the verified user but not the token verified.
VerifiedSessionNoToken(token, scopes, user_email, mcp_session_id) ==
  SessionInfo(NoToken, None, None, None, None, scopes, NoExpiry,
              "google_" \o user_email, mcp_session_id, GoogleIssuer)

\* The record verify_token stores for a token it has verified: the keyword
\* arguments it does not pass are None.
VerifiedSession(token, scopes, user_email, mcp_session_id) ==
  SessionInfo(token, None, None, None, None, scopes, NoExpiry,
              "google_" \o user_email, mcp_session_id, GoogleIssuer)

Step(token, info, tried, ending) ==
  [token |-> token, info |-> info, tried |-> tried, ending |-> ending]

\* verify_token: the set of the ways the call can go, one for every answer
\* of tokeninfo, of the JWT verifier and of the token endpoint. ctx_sid is
\* the session id of the FastMCP context (None when there is none).
RECURSIVE verify_token(_, _, _, _, _)
verify_token(st, dur, iss, token, ctx_sid) ==
  IF IsOpaque(token)
  THEN UNION {
    IF info = "ok"
    THEN LET n == CHOOSE k \in DOMAIN iss : iss[k].token = token
             user_email == iss[n].account
         IN {IF store_ok
             THEN Verdict(user_email, token,
                     store_session(st, user_email,
                       VerifiedSession(token, iss[n].scopes, user_email, ctx_sid)),
                     dur, <<>>, <<Step(token, info, <<>>, "none")>>)
             \* the except clause of the opaque branch: None
             ELSE Verdict(None, token, st, dur, <<>>,
                          <<Step(token, info, <<>>, "store-error")>>) :
             store_ok \in StoreAnswers}
    ELSE IF info = "non200"
    THEN UNION {
      IF rec.token # NoToken
      \* the refreshed token is verified in turn
      THEN {[v EXCEPT !.minted = rec.minted \o v.minted,
                      !.steps = <<Step(token, info, rec.tried, rec.ending)>> \o v.steps] :
              v \in verify_token(rec.store, rec.durable, iss \o rec.minted,
                                 rec.token, ctx_sid)}
      ELSE {Verdict(None, token, rec.store, rec.durable, <<>>,
                    <<Step(token, info, rec.tried, rec.ending)>>)} :
      rec \in Recoveries(st, dur, iss, token)}
    \* audience mismatch, expires_in <= 0, or an exception: None
    ELSE {Verdict(None, token, st, dur, <<>>, <<Step(token, info, <<>>, "none")>>)} :
    info \in TokenInfoAnswers(iss, token)}
  \* super().verify_token: the JWT verifier accepts the token, whose email
  \* claim names JwtAccount, or rejects it
  ELSE {Verdict(JwtAccount, token,
                store_session(st, JwtAccount,
                  VerifiedSession(token, {}, JwtAccount, None)),
                dur, <<>>, <<Step(token, "jwt-valid", <<>>, "none")>>)}
       \cup {Verdict(None, token, st, dur, <<>>,
                     <<Step(token, "jwt-invalid", <<>>, "none")>>)}
       \* the JWT branch has no except clause: an exception of the JWT
       \* verifier or of store_session leaves verify_token
       \cup {Escaped(token, st, dur, <<Step(token, "jwt-error", <<>>, "none")>>)}
       \cup {Escaped(token, st, dur, <<Step(token, "jwt-valid", <<>>, "store-error")>>)
               : store_ok \in StoreAnswers \ {TRUE}}

\* ------------------------------------------------------------- auth_revoke
\* Answers of Google's revoke endpoint: status 200, another status, or the
\* request raises.
RevokeAnswers == {"200", "400", "raises"}

\* Google's ledger once the revoke endpoint has answered 200 for token: the
\* grant the token belongs to is withdrawn.
Revoke(iss, token) ==
  [n \in DOMAIN iss |->
     IF \E k \in DOMAIN iss : iss[k].token = token /\ iss[k].account = iss[n].account
     THEN [iss[n] EXCEPT !.revoked = TRUE] ELSE iss[n]]

\* The email auth_revoke works with: the principal of the verified bearer
\* token, else the email claim of the token decoded without verification,
\* else the email of the request body (None when there is none).
RevokeEmail(v, token, body_email) ==
  IF v.principal # None THEN v.principal
  ELSE IF token # NoToken /\ ~IsOpaque(token) THEN JwtAccount
  ELSE body_email

\* What the route answers and leaves behind.
Revoked(status, user_email, st, dur, iss, minted, revoked_with_google) ==
  [status |-> status, email |-> user_email, store |-> st, durable |-> dur,
   issued |-> iss, minted |-> minted, revoked_with_google |-> revoked_with_google]

\* The part of auth_revoke that follows the resolution of the email. fault
\* is the storage fault delete_credentials_file meets, answer the answer of
\* Google's revoke endpoint.
RevokeFor(user_email, st, dur, iss, minted, fault, answer) ==
  IF user_email = None THEN Revoked(400, None, st, dur, iss, minted, FALSE)
  ELSE LET credentials == IF user_email \in DOMAIN st.sessions
                          THEN {CredsOfSession(st.sessions[user_email])} ELSE {}
           asked == \E c \in credentials : c.token # NoToken
           told == asked /\ answer = "200"
       IN Revoked(200, user_email,
                  remove_session(st, user_email),
                  \* delete_credentials_file(user_email): an error is logged
                  IF fault = "none" THEN delete_credentials_file(dur, user_email)
                  ELSE dur,
                  IF told
                  THEN Revoke(iss, (CHOOSE c \in credentials : TRUE).token)
                  ELSE iss,
                  minted, told)

\* auth_revoke: the set of the ways a POST /auth/revoke can go. token is the
\* bearer token of the Authorization header (NoToken when there is none).
auth_revoke(st, dur, iss, token, body_email, fault, answer) ==
  IF token = NoToken
  THEN {RevokeFor(body_email, st, dur, iss, <<>>, fault, answer)}
  ELSE {RevokeFor(RevokeEmail(v, token, body_email), v.store, v.durable,
                  iss \o v.minted, v.minted, fault, answer) :
          v \in verify_token(st, dur, iss, token, None)}

\* ----------------------------------------------------------------- actions
\* No _attempt_token_refresh call is in progress.
IdleScan ==
  [pc |-> "idle", pass |-> "none", at |-> <<>>, failed_token |-> NoToken,
   tried |-> <<>>, session_info |-> {}, keys |-> {}]

EmptyMap == [x \in {} |-> None]

\* The worker threads, and a thread that runs no call.
Workers == {"w1", "w2", "w3"}
IdleWorker ==
  [pc |-> "idle", client |-> 0, credentials |-> {}, user_google_email |-> None]

Init ==
  /\ sessions = EmptyMap
  /\ mcp_map = EmptyMap
  /\ durable = EmptyMap
  /\ credentials_base_dir \in BaseDirs
  /\ single_user_mode \in BOOLEAN
  /\ now = 0
  /\ issued = <<>>
  /\ auth_urls = {}
  /\ lock = "free"
  /\ scan = IdleScan
  /\ s3_client = [cached |-> 0, built |-> 0]
  /\ workers = [w \in Workers |-> IdleWorker]

\* The call leaves r behind; minted is the sequence of the records of the
\* tokens Google minted during the call.
Apply(r, minted) ==
  /\ sessions' = r.store.sessions
  /\ mcp_map' = r.store.mcp_map
  /\ durable' = r.durable
  /\ issued' = issued \o minted
  /\ UNCHANGED <<credentials_base_dir, single_user_mode, now, auth_urls,
                 lock, scan,
                 s3_client, workers>>

\* Arguments of a get_credentials call.
GcArgs ==
  [email : Emails \cup {None}, req : RequiredChoices,
   csp : {None, "client_secret.json"}, sid : Sids \cup {None},
   uid : UserIds \cup {None}]

\* Listings the single-user scan can meet in the current state.
Picks ==
  IF single_user_mode /\ Decodable(durable) # {} THEN Decodable(durable)
  ELSE {None}

\* get_credentials called in the current state.
GcCall(a, ans, fault, pick) ==
  get_credentials(Store(sessions, mcp_map), durable, credentials_base_dir,
                  single_user_mode, a.email, a.req, a.csp, a.sid, a.uid,
                  ans, fault, pick)

NoAnswer == <<"transient", FALSE>>

\* Backend faults that make a difference to a call that went as r0 without
\* a fault: none when it reads no durable storage.
GcFaults(r0) ==
  IF r0.trace.reads = {} THEN {"none"} ELSE Faults(credentials_base_dir)

\* Token-endpoint answers that make a difference to a call that went as r1
\* without an answer: none when it asks for no refresh.
GcAnswers(r1) ==
  IF r1.trace.refresh = "none" THEN {NoAnswer} ELSE RefreshAnswers

\* The calls with arguments a and listing pick that meet fault and went as r1
\* without an answer of the token endpoint, one per answer, each as
\* <<a, pick, fault, ans, r>> with r the outcome of the call.
GcAnswered(a, pick, fault, r1) ==
  {<<a, pick, fault, ans,
     IF ans = NoAnswer THEN r1 ELSE GcCall(a, ans, fault, pick)>> :
     ans \in GcAnswers(r1)}

\* The calls with arguments a and listing pick that went as r0 without a
\* fault, one per fault and answer.
GcFaulted(a, pick, r0) ==
  UNION {UNION {GcAnswered(a, pick, fault, r1) :
                  r1 \in {IF fault = "none" THEN r0
                          ELSE GcCall(a, NoAnswer, fault, pick)}} :
           fault \in GcFaults(r0)}

\* The get_credentials calls possible in the current state.
GcCalls ==
  UNION {UNION {GcFaulted(ap[1], ap[2], r0) :
                  r0 \in {GcCall(ap[1], NoAnswer, "none", ap[2])}} :
           ap \in GcArgs \X Picks}

\* A request thread calls get_credentials. The backend fault is an input of
\* the calls that read durable storage, the answer of the token endpoint an
\* input of the calls that ask for a refresh.
GetCredentials ==
  \E k \in GcCalls :
    LET ans == k[4]
        r == k[5]
    IN /\ ans[1] = "ok" => CanMint(issued)
       /\ Apply(r, IF r.trace.refresh = "ok"
                   THEN LET c1 == CHOOSE c \in r.result : TRUE
                        IN <<Minted(c1, OwnerOf(c1.refresh_token), "refresh")>>
                   ELSE <<>>)

\* Inputs of a handle_auth_callback call: the arguments, the Google account
\* that granted the code and the answers of Google and of storage.
CbInputs ==
  [account : Emails, prefix : Prefixes, scopes : GrantChoices,
   sid : Sids \cup {None}, uid : UserIds \cup {None},
   state : auth_urls \cup {None, ForgedState},
   exchange : {"ok", "FlowExchangeError"}, userinfo_ok : BOOLEAN,
   offline : BOOLEAN, save_ok : BOOLEAN]

\* handle_auth_callback called in the current state.
CbCall(i) ==
  handle_auth_callback(Store(sessions, mcp_map), durable, i.account, i.prefix,
                       i.scopes, i.sid, i.uid, i.state, i.exchange, i.userinfo_ok,
                       i.offline, i.save_ok)

\* The OAuth callback route calls handle_auth_callback.
HandleAuthCallback ==
  \E i \in CbInputs :
    /\ nextTok < MaxTok
    /\ Callbacks < MaxCallbacks
    /\ \E r \in {CbCall(i)} :
         \* a token of a callback that fails leaves the server with nobody
         Apply(r, IF r.raised = "none"
                  THEN <<Minted(CHOOSE c \in r.result : TRUE, i.account, "code")>>
                  ELSE <<>>)

\* Tokens a client can present in the current state.
PresentedTokens ==
  {issued[n].token : n \in DOMAIN issued}
  \cup {ForgedToken(p) : p \in Prefixes}
  \cup {ShortToken, ForeignToken, JwtToken}

\* verify_token called in the current state.
Verdicts(token, ctx_sid) ==
  verify_token(Store(sessions, mcp_map), durable, issued, token, ctx_sid)

\* The transport layer calls verify_token with the bearer token of a request.
VerifyToken ==
  \E token \in PresentedTokens, ctx_sid \in Sids \cup {None} :
    \E v \in Verdicts(token, ctx_sid) : Apply(v, v.minted)

\* A tool asks for authorization: start_auth_flow hands out a URL.
StartAuthFlow ==
  /\ Cardinality(auth_urls) < MaxFlows
  /\ auth_urls' = start_auth_flow(auth_urls)
  /\ UNCHANGED <<sessions, mcp_map, durable, credentials_base_dir,
                 single_user_mode, now, issued, lock, scan,
                 s3_client, workers>>

\* Time passes.
Tick ==
  /\ now < MaxTime
  /\ now' = now + 1
  /\ UNCHANGED <<sessions, mcp_map, durable, credentials_base_dir,
                 single_user_mode, issued, auth_urls, lock, scan,
                 s3_client, workers>>

\* A credential file is overwritten with content that is not valid JSON.
CorruptFile ==
  \E i \in DOMAIN durable :
    /\ durable[i].kind = "json"
    /\ durable' = Put(durable, i, CorruptBlob)
    /\ UNCHANGED <<sessions, mcp_map, credentials_base_dir, single_user_mode,
                   now, issued, auth_urls, lock, scan,
                 s3_client, workers>>

Next ==
  \/ GetCredentials
  \/ HandleAuthCallback
  \/ StartAuthFlow
  \/ VerifyToken
  \/ Tick
  \/ CorruptFile

Spec == Init /\ [][Next]_vars

\* ------------------------------------------------- the revocation endpoint
\* Inputs of a POST /auth/revoke in the current state.
RevokeInputs ==
  [token : PresentedTokens \cup {NoToken}, email : Emails \cup {None},
   fault : Faults(credentials_base_dir), answer : RevokeAnswers]

\* auth_revoke called in the current state.
RevokeCall(i) ==
  auth_revoke(Store(sessions, mcp_map), durable, issued, i.token, i.email,
              i.fault, i.answer)

\* A client posts to /auth/revoke.
AuthRevoke ==
  \E i \in RevokeInputs :
    \E r \in RevokeCall(i) :
      /\ sessions' = r.store.sessions
      /\ mcp_map' = r.store.mcp_map
      /\ durable' = r.durable
      /\ issued' = r.issued
      /\ UNCHANGED <<credentials_base_dir, single_user_mode, now, auth_urls,
                     lock, scan,
                 s3_client, workers>>

NextRevoke ==
  \/ HandleAuthCallback
  \/ AuthRevoke
  \/ Tick

\* The server with its callback and revocation routes.
SpecRevoke == Init /\ [][NextRevoke]_vars

\* ------------------------------------------- durable storage, every location
\* Base directories credentials are kept under: a local directory and two
\* prefixes of one bucket, the second written with a trailing slash.
S3Dir2 == <<"s", "3", ":", "/", "/", "b", "/", "q", "/">>
Locations == {LocalDir, S3Dir, S3Dir2}

\* Credential identifiers, and how they are spelled in a file name.
StorageIds == {"u1", "e1"}
Spell == [i \in StorageIds |-> IF i = "u1" THEN <<"u", "1">> ELSE <<"e", "1">>]
JsonSuffix == <<".", "j", "s", "o", "n">>

EndsWith(p, ch) == p # <<>> /\ p[Len(p)] = ch

\* A path that gets a slash after base_dir whatever base_dir ends with.
path_with_slash(ident, base_dir) ==
  base_dir \o <<"/">> \o Spell[ident] \o JsonSuffix

\* _get_user_credential_path: base_dir, a slash unless it ends with one
\* (os.path.join does the same for a local directory), the identifier,
\* ".json".
get_user_credential_path(ident, base_dir) ==
  IF is_s3_path(base_dir)
  THEN (IF EndsWith(base_dir, "/") THEN base_dir ELSE base_dir \o <<"/">>)
       \o Spell[ident] \o JsonSuffix
  ELSE (IF EndsWith(base_dir, "/") THEN base_dir ELSE base_dir \o <<"/">>)
       \o Spell[ident] \o JsonSuffix

\* re.sub(r'/+', '/', p)
RECURSIVE Squeeze(_)
Squeeze(p) ==
  IF Len(p) < 2 THEN p
  ELSE IF p[1] = "/" /\ p[2] = "/" THEN Squeeze(Tail(p))
  ELSE <<p[1]>> \o Squeeze(Tail(p))

\* p.lstrip('/')
RECURSIVE LStrip(_)
LStrip(p) == IF p # <<>> /\ Head(p) = "/" THEN LStrip(Tail(p)) ELSE p

\* Position of the first slash of p, 0 when it has none.
FirstSlash(p) ==
  IF \E n \in DOMAIN p : p[n] = "/"
  THEN CHOOSE n \in DOMAIN p : p[n] = "/" /\ \A k \in 1..(n - 1) : p[k] # "/"
  ELSE 0

\* auth/s3_storage.py parse_s3_path: the bucket and the key of an S3 path
parse_s3_path(s3_path) ==
  LET path == Strip(s3_path)
      remaining_path == SubSeq(path, Len(S3Scheme) + 1, Len(path))
      cut == FirstSlash(remaining_path)
  IN IF cut = 0 THEN <<remaining_path, <<>>>>
     ELSE <<SubSeq(remaining_path, 1, cut - 1),
            LStrip(Squeeze(SubSeq(remaining_path, cut + 1, Len(remaining_path))))>>

\* Where the blob of creds_path lives: an object of a bucket, or a file of
\* the local file system, which reads repeated slashes as one.
Place(creds_path) ==
  IF is_s3_path(creds_path)
  THEN [backend |-> "s3", bucket |-> parse_s3_path(creds_path)[1],
        key |-> parse_s3_path(creds_path)[2]]
  ELSE [backend |-> "file", bucket |-> <<>>, key |-> Squeeze(creds_path)]

\* The place of every identifier under every location.
Places ==
  [L \in Locations |->
     [i \in StorageIds |-> Place(get_user_credential_path(i, L))]]

\* The blobs of files (place -> blob) that live under base_dir, by identifier.
Under(files, base_dir) ==
  [i \in {j \in StorageIds : Places[base_dir][j] \in DOMAIN files} |->
     files[Places[base_dir][i]]]

\* files once the blobs under base_dir have become dur.
Within(files, base_dir, dur) ==
  LET here == {Places[base_dir][i] : i \in StorageIds}
      kept == DOMAIN files \ here
  IN [pl \in kept \cup {Places[base_dir][i] : i \in DOMAIN dur} |->
        IF pl \in kept THEN files[pl]
        ELSE dur[CHOOSE i \in DOMAIN dur : Places[base_dir][i] = pl]]

\* save_credentials_to_file(ident, email, c, base_dir) on the whole storage
SaveAt(files, ident, base_dir, user_google_email, c) ==
  Within(files, base_dir,
         save_credentials_to_file(Under(files, base_dir), ident,
                                  user_google_email, c))

\* delete_credentials_file(ident, base_dir) on the whole storage
DeleteAt(files, ident, base_dir) ==
  Within(files, base_dir, delete_credentials_file(Under(files, base_dir), ident))

\* load_credentials_from_file(ident, base_dir) on the whole storage
LoadAt(files, ident, base_dir, fault) ==
  load_credentials_from_file(Under(files, base_dir), ident, base_dir, fault)

\* Bundles a caller can hand to save_credentials_to_file: with and without a
\* refresh token, an expiry and an id_token.
Bundles ==
  {Creds(tok, rt, TokenUri, ClientId, ClientSecret, scopes, expiry, idt) :
     tok \in {FreshTokenAt(1, 0), FreshTokenAt(1, 1)},
     rt \in {None, RT["e1"]}, scopes \in GrantChoices,
     expiry \in {NoExpiry} \cup 0..MaxTime, idt \in {None, "e1"}}

\* The bundles the storage actions save.
SavedBundles ==
  {Creds(FreshTokenAt(1, 0), RT["e1"], TokenUri, ClientId, ClientSecret,
         {"A", "B"}, TokenLifetime, "e1"),
   Creds(FreshTokenAt(1, 1), None, TokenUri, ClientId, ClientSecret,
         {"A", "B"}, NoExpiry, None)}

\* In this specification durable holds the blobs of every location, by place.
SaveFile ==
  \E L \in Locations, i \in StorageIds, c \in SavedBundles, save_ok \in BOOLEAN :
    \* a save that raises has written nothing
    /\ durable' = IF save_ok THEN SaveAt(durable, i, L, "e1", c) ELSE durable
    /\ UNCHANGED <<sessions, mcp_map, credentials_base_dir, single_user_mode,
                   now, issued, auth_urls, lock, scan,
                 s3_client, workers>>

DeleteFile ==
  \E L \in Locations, i \in StorageIds : \E fault \in Faults(L) :
    \* a delete that meets a fault returns False and has deleted nothing
    /\ durable' = IF fault = "none" THEN DeleteAt(durable, i, L) ELSE durable
    /\ UNCHANGED <<sessions, mcp_map, credentials_base_dir, single_user_mode,
                   now, issued, auth_urls, lock, scan,
                 s3_client, workers>>

\* A load changes nothing.
LoadFile ==
  \E L \in Locations, i \in StorageIds : \E fault \in Faults(L) :
    /\ LoadAt(durable, i, L, fault).raised \in {"none", "ClientError"}
    /\ UNCHANGED vars

NextStorage ==
  \/ SaveFile
  \/ DeleteFile
  \/ LoadFile

SpecStorage == Init /\ [][NextStorage]_vars

\* --------------------------------------------------- the cached S3 client
\* get_s3_client on worker thread w, first step: the global is read; a
\* cached client is returned, otherwise the thread goes on to build one.
ClientCheck(w) ==
  /\ workers[w].pc = "idle"
  /\ workers' = [workers EXCEPT ![w] =
       IF s3_client.cached # 0
       THEN [@ EXCEPT !.pc = "returned", !.client = s3_client.cached]
       ELSE [@ EXCEPT !.pc = "build", !.client = 0]]
  /\ UNCHANGED <<sessions, mcp_map, durable, credentials_base_dir,
                 single_user_mode, now, issued, auth_urls, lock, scan, s3_client>>

\* Second step: boto3.client builds a client, which is assigned to the
\* global and returned; or boto3 raises and nothing is cached.
ClientBuild(w) ==
  /\ workers[w].pc = "build"
  /\ s3_client.built < MaxClients
  /\ \E built_ok \in BOOLEAN :
       IF built_ok
       THEN /\ s3_client' = [cached |-> s3_client.built + 1,
                             built |-> s3_client.built + 1]
            /\ workers' = [workers EXCEPT ![w] =
                 [@ EXCEPT !.pc = "returned", !.client = s3_client.built + 1]]
       ELSE /\ s3_client' = s3_client
            /\ workers' = [workers EXCEPT ![w] = IdleWorker]
  /\ UNCHANGED <<sessions, mcp_map, durable, credentials_base_dir,
                 single_user_mode, now, issued, auth_urls, lock, scan>>

\* The caller has used the client and its thread is free for another call.
ClientDone(w) ==
  /\ workers[w].pc = "returned"
  /\ workers' = [workers EXCEPT ![w] = IdleWorker]
  /\ UNCHANGED <<sessions, mcp_map, durable, credentials_base_dir,
                 single_user_mode, now, issued, auth_urls, lock, scan, s3_client>>

NextClient ==
  \/ \E w \in Workers : ClientCheck(w)
  \/ \E w \in Workers : ClientBuild(w)
  \/ \E w \in Workers : ClientDone(w)

\* Storage calls on the worker threads.
SpecClient == Init /\ [][NextClient]_vars

\* ------------------------------------- get_credentials on worker threads
\* get_credentials(user_google_email, required_scopes, client_secrets_path,
\* credentials_base_dir, session_id=None, user_id) on worker thread w, up to
\* the refresh: the bundle of the identifier is loaded and passes the scope
\* check, and it is expired and has a refresh token. Every other way
\* through these lines returns or raises with nothing written.
GcLoad(w) ==
  /\ workers[w].pc \in {"idle", "done"}
  /\ ~single_user_mode
  /\ \E e \in Emails, user_id \in UserIds \cup {None}, req \in RequiredChoices :
       \E fault \in Faults(credentials_base_dir) :
         LET credential_identifier == IF user_id # None THEN user_id ELSE e
             loaded == load_credentials_from_file(durable, credential_identifier,
                                                  credentials_base_dir, fault)
         IN \E c \in loaded.creds :
              /\ HasScopes(c, req)
              /\ ~Valid(c)
              /\ Expired(c) /\ c.refresh_token # None
              /\ workers' = [workers EXCEPT ![w] =
                   [@ EXCEPT !.pc = "refresh", !.credentials = {c},
                             !.user_google_email = e]]
  /\ UNCHANGED <<sessions, mcp_map, durable, credentials_base_dir,
                 single_user_mode, now, issued, auth_urls, lock, scan, s3_client>>

\* credentials.refresh(Request()): the token endpoint answers with a new
\* access token, or the refresh fails and the call returns None.
GcRefresh(w) ==
  /\ workers[w].pc = "refresh"
  /\ \E c \in workers[w].credentials, ans \in RefreshAnswers :
       IF RefreshOutcome(c, ans) = "ok"
       THEN LET c1 == Refreshed(c, c.token, IdTokenOf(c, ans)) IN
            /\ Len(issued) < MaxRaceTok
            /\ issued' = Append(issued, Minted(c1, OwnerOf(c1.refresh_token), "refresh"))
            /\ workers' = [workers EXCEPT ![w] =
                 [@ EXCEPT !.pc = "save", !.credentials = {c1}]]
       ELSE /\ issued' = issued
            /\ workers' = [workers EXCEPT ![w] = IdleWorker]
  /\ UNCHANGED <<sessions, mcp_map, durable, credentials_base_dir,
                 single_user_mode, now, auth_urls, lock, scan, s3_client>>

\* save_credentials_to_file(user_google_email, user_google_email, ...)
GcSave(w) ==
  /\ workers[w].pc = "save"
  /\ \E c1 \in workers[w].credentials :
       durable' = save_credentials_to_file(durable, workers[w].user_google_email,
                                           workers[w].user_google_email, c1)
  /\ workers' = [workers EXCEPT ![w] = [@ EXCEPT !.pc = "store"]]
  /\ UNCHANGED <<sessions, mcp_map, credentials_base_dir, single_user_mode,
                 now, issued, auth_urls, lock, scan, s3_client>>

\* store.store_session(user_email=user_google_email, ...), after which the
\* call returns the refreshed bundle.
GcStore(w) ==
  /\ workers[w].pc = "store"
  /\ \E c1 \in workers[w].credentials :
       \E st \in {store_session(Store(sessions, mcp_map), workers[w].user_google_email,
                    SessionInfo(c1.token, c1.refresh_token, c1.token_uri,
                                c1.client_id, c1.client_secret, c1.scopes,
                                c1.expiry, None, None, GoogleIssuer))} :
         /\ sessions' = st.sessions
         /\ mcp_map' = st.mcp_map
  /\ workers' = [workers EXCEPT ![w] = [@ EXCEPT !.pc = "done"]]
  /\ UNCHANGED <<durable, credentials_base_dir, single_user_mode, now, issued,
                 auth_urls, lock, scan, s3_client>>

NextRace ==
  \/ HandleAuthCallback
  \/ Tick
  \/ \E w \in Workers : GcLoad(w)
  \/ \E w \in Workers : GcRefresh(w)
  \/ \E w \in Workers : GcSave(w)
  \/ \E w \in Workers : GcStore(w)

\* Tool calls resolving credentials on the threads of asyncio.to_thread.
SpecRace == Init /\ [][NextRace]_vars

\* ------------------------------------------------- the configured location
\* Values GOOGLE_MCP_CREDENTIALS_DIR and the base_dir arguments can have:
\* None, empty and blank strings, local directories, and strings built from
\* an optional leading blank, a scheme in either case or a near-miss of it,
\* and a bucket with or without a prefix, trailing slash or trailing blank.
PathInputs ==
  {NonePath, <<>>, <<" ">>, <<" ", " ">>, LocalDir, LocalDir \o <<"/">>, S3Dir2}
  \cup {lead \o <<c, "3">> \o mid \o rest :
          lead \in {<<>>, <<" ">>}, c \in {"s", "S", "x"},
          mid \in {<<":", "/", "/">>, <<":", "/">>, <<":">>},
          rest \in {<<>>, <<"b">>, <<"b", "/", "p">>, <<"b", "/", "p", "/">>,
                    <<"b", "/", "p", " ">>}}

\* The module is imported with any of these values configured.
InitPaths ==
  /\ credentials_base_dir \in PathInputs
  /\ sessions = EmptyMap
  /\ mcp_map = EmptyMap
  /\ durable = EmptyMap
  /\ single_user_mode \in BOOLEAN
  /\ now = 0
  /\ issued = <<>>
  /\ auth_urls = {}
  /\ lock = "free"
  /\ scan = IdleScan
  /\ s3_client = [cached |-> 0, built |-> 0]
  /\ workers = [w \in Workers |-> IdleWorker]

\* The server is restarted with another location configured.
Configure ==
  /\ credentials_base_dir' \in PathInputs
  /\ UNCHANGED <<sessions, mcp_map, durable, single_user_mode, now, issued,
                 auth_urls, lock, scan, s3_client, workers>>

\* The location is classified and the path of an identifier is built; for a
\* local directory that does not exist the directory is created.
ResolvePath ==
  \E i \in StorageIds :
    /\ credentials_base_dir \notin {NonePath, <<>>}
    /\ is_s3_path(get_user_credential_path(i, credentials_base_dir)) \in BOOLEAN
    /\ UNCHANGED vars

NextPaths ==
  \/ Configure
  \/ ResolvePath

SpecPaths == InitPaths /\ [][NextPaths]_vars

\* ------------------------------------------------------- listing a bucket
\* Keys of objects that can be in bucket b: the credential files of the two
\* prefixes, and under or next to prefix p a file of a folder, a file with
\* an upper-case extension, a file that is not JSON and a file of a prefix
\* that starts with the same letter.
ObjectKeys ==
  {Places[S3Dir]["u1"].key, Places[S3Dir2]["e1"].key,
   <<"p", "/", "s", "/", "u", "1", ".", "j", "s", "o", "n">>,
   <<"p", "/", "U", "1", ".", "J", "S", "O", "N">>,
   <<"p", "/", "n", ".", "t", "x", "t">>,
   <<"p", "q", "/", "u", "1", ".", "j", "s", "o", "n">>}

\* Directories a listing is asked for: the two prefixes and a prefix no
\* object is under.
ListDirs == {S3Dir, S3Dir2, SubSeq(S3Dir, 1, Len(S3Dir) - 1) \o <<"z">>}

StartsWith(p, q) == Len(p) >= Len(q) /\ SubSeq(p, 1, Len(q)) = q

\* key.lower().endswith('.json')
IsJsonKey(key) ==
  /\ Len(key) >= Len(JsonSuffix)
  /\ \A n \in 1..Len(JsonSuffix) :
       Lower(key[Len(key) - Len(JsonSuffix) + n]) = JsonSuffix[n]

\* The prefix the listing asks S3 for, as given.
ListPrefixAsGiven(prefix) == prefix

\* The prefix the listing asks S3 for: a slash is added unless the prefix is
\* empty or ends with one.
ListPrefix(prefix) ==
  IF prefix # <<>> /\ ~EndsWith(prefix, "/") THEN prefix \o <<"/">> ELSE prefix

\* The keys of files that list_objects_v2 finds for s3_dir.
Matching(files, s3_dir) ==
  {pl.key : pl \in {q \in DOMAIN files :
                      /\ q.backend = "s3"
                      /\ q.bucket = parse_s3_path(s3_dir)[1]
                      /\ StartsWith(q.key, ListPrefix(parse_s3_path(s3_dir)[2]))}}

\* The loop of s3_list_json_files from the page that starts at position
\* token of S3's order of the matching keys: each page holds at most
\* page_size keys and is truncated when keys follow it.
RECURSIVE ListLoop(_, _, _, _, _)
ListLoop(bucket_name, order, page_size, token, json_files) ==
  LET last == IF token + page_size - 1 < Len(order)
              THEN token + page_size - 1 ELSE Len(order)
      contents == SubSeq(order, token, last)
      found == [n \in 1..Len(SelectSeq(contents, IsJsonKey)) |->
                  S3Scheme \o bucket_name \o <<"/">>
                  \o SelectSeq(contents, IsJsonKey)[n]]
  IN IF last < Len(order)
     THEN ListLoop(bucket_name, order, page_size, last + 1, json_files \o found)
     ELSE json_files \o found

\* s3_list_json_files: the list returned and the exception raised. order is
\* the order S3 returns the matching keys in, fault the fault the request
\* meets.
s3_list_json_files(files, s3_dir, page_size, order, fault) ==
  IF fault # "none" THEN [files |-> <<>>, raised |-> "ClientError"]
  ELSE [files |-> ListLoop(parse_s3_path(s3_dir)[1], order, page_size, 1, <<>>),
        raised |-> "none"]

\* An object is put into the bucket.
PutObject ==
  \E key \in ObjectKeys :
    /\ durable' = Put(durable, [backend |-> "s3", bucket |-> parse_s3_path(S3Dir)[1],
                                key |-> key], CorruptBlob)
    /\ UNCHANGED <<sessions, mcp_map, credentials_base_dir, single_user_mode,
                   now, issued, auth_urls, lock, scan,
                 s3_client, workers>>

\* An object is removed from the bucket.
RemoveObject ==
  \E pl \in DOMAIN durable :
    /\ durable' = Drop(durable, pl)
    /\ UNCHANGED <<sessions, mcp_map, credentials_base_dir, single_user_mode,
                   now, issued, auth_urls, lock, scan,
                 s3_client, workers>>

\* A listing changes nothing.
ListJsonFiles ==
  \E s3_dir \in ListDirs, page_size \in 1..MaxPage, fault \in Faults(S3Dir) :
    \E order \in Perms(Matching(durable, s3_dir)) :
      /\ s3_list_json_files(durable, s3_dir, page_size, order, fault).raised
           \in {"none", "ClientError"}
      /\ UNCHANGED vars

NextList ==
  \/ PutObject
  \/ RemoveObject
  \/ ListJsonFiles

\* The bucket and its listing; durable holds the objects by place.
SpecList == Init /\ [][NextList]_vars

\* ------------------------------------------ the recovery scan, step by step
\* The event loop runs its tasks on one thread; store._lock belongs to the
\* thread that acquired it, and the thread that holds it may acquire it again
\* (the scan itself calls store_session and remove_session inside its with
\* block).
LoopThread == "loop"
WorkerThread == "worker"

\* with store._lock: the lock after thread has entered the block.
acquire(l, thread) == thread

\* The thread can enter a with store._lock block.
CanAcquire(l, thread) == l \in {"free", thread}

\* verify_token calls _attempt_token_refresh(failed_token): the lock is taken
\* and the first pass starts; at holds the sessions the pass has yet to meet,
\* in the order store._sessions.items() yields them, keys the keys of the
\* dict when the loop started.
ScanBegin ==
  \E failed_token \in {t \in PresentedTokens : IsOpaque(t)},
     order \in Perms(DOMAIN sessions) :
    /\ scan.pc = "idle"
    /\ CanAcquire(lock, LoopThread)
    /\ lock' = acquire(lock, LoopThread)
    /\ scan' = [pc |-> "scan", pass |-> "exact", at |-> order,
                failed_token |-> failed_token, tried |-> <<>>,
                session_info |-> {}, keys |-> DOMAIN sessions]
    /\ UNCHANGED <<sessions, mcp_map, durable, credentials_base_dir,
                   single_user_mode, now, issued, auth_urls,
                 s3_client, workers>>

\* One step of a for loop: the next session is compared with the failed
\* token; a match with a refresh token submits credentials.refresh to the
\* executor and the task is suspended at its await. At the end of the first
\* pass the second starts; at the end of the second the call returns None.
\* A dict whose keys another task has changed in the meantime ends the loop
\* with RuntimeError, which the outer except clause turns into None.
ScanStep ==
  /\ scan.pc = "scan"
  /\ UNCHANGED <<sessions, mcp_map, durable, credentials_base_dir,
                 single_user_mode, now, issued, auth_urls, lock,
                 s3_client, workers>>
  /\ IF scan.at = <<>>
     THEN IF scan.pass = "exact"
          THEN \E order \in Perms(DOMAIN sessions) :
                 scan' = [scan EXCEPT !.pass = "prefix", !.at = order,
                                      !.keys = DOMAIN sessions]
          ELSE scan' = [scan EXCEPT !.pc = "done"]
     ELSE IF DOMAIN sessions # scan.keys
     THEN scan' = [scan EXCEPT !.pc = "done"]
     ELSE IF \/ scan.pass = "exact"
                /\ ExactMatch(Store(sessions, mcp_map), scan.failed_token, Head(scan.at))
             \/ scan.pass = "prefix"
                /\ PrefixMatch(Store(sessions, mcp_map), scan.failed_token, Head(scan.at))
     THEN scan' = [scan EXCEPT !.pc = "await",
                                !.session_info = {sessions[Head(scan.at)]}]
     ELSE scan' = [scan EXCEPT !.at = Tail(scan.at)]

\* The executor has run credentials.refresh and the task resumes: the new
\* token is stored and returned, or RefreshError purges the bundle, or any
\* other exception makes the loop continue with the next session. The
\* refresh and the record stored use the session_info the loop held when it
\* matched, whatever the store holds by now.
ScanResume ==
  /\ scan.pc = "await"
  /\ UNCHANGED <<credentials_base_dir, single_user_mode, now, auth_urls, lock,
                 s3_client, workers>>
  /\ \/ /\ scan' = [scan EXCEPT !.pc = "scan", !.at = Tail(scan.at),
                                 !.tried = Append(scan.tried, Head(scan.at)),
                                 !.session_info = {}]
        /\ UNCHANGED <<sessions, mcp_map, durable, issued>>
     \/ \E answer \in (IF CanMint(issued) THEN {"ok", "RefreshError"}
                        ELSE {"RefreshError"}), session_info \in scan.session_info :
             \E rec \in {RefreshMatched(
                           Store(Put(sessions, Head(scan.at), session_info), mcp_map),
                           durable, issued, Head(scan.at),
                           Append(scan.tried, Head(scan.at)), answer)} :
               /\ sessions' = rec.store.sessions
               /\ mcp_map' = rec.store.mcp_map
               /\ durable' = rec.durable
               /\ issued' = issued \o rec.minted
               /\ scan' = [scan EXCEPT !.pc = "done", !.tried = rec.tried]

\* The with block is left and _attempt_token_refresh returns.
ScanEnd ==
  /\ scan.pc = "done"
  /\ lock' = "free"
  /\ scan' = IdleScan
  /\ UNCHANGED <<sessions, mcp_map, durable, credentials_base_dir,
                 single_user_mode, now, issued, auth_urls,
                 s3_client, workers>>

\* Another task of the event loop handles an OAuth callback: it runs when
\* no task is running, i.e. when the scan is not in progress or is suspended
\* at its await, and its store_session takes the lock of its own thread.
TaskCallback ==
  /\ scan.pc \in {"idle", "await"}
  /\ CanAcquire(lock, LoopThread)
  /\ HandleAuthCallback

\* A callback handled on another thread: its store_session waits for the
\* lock.
ThreadCallback ==
  /\ CanAcquire(lock, WorkerThread)
  /\ HandleAuthCallback

NextScan ==
  \/ ScanBegin
  \/ ScanStep
  \/ ScanResume
  \/ ScanEnd
  \/ TaskCallback
  \/ ThreadCallback
  \/ Tick

SpecScan == Init /\ [][NextScan]_vars


\* ------------------------------------------------------------------ claims
\* The bundle the session store holds for session id sid ({} when none).
SessionBundle(sid) ==
  IF sid = None THEN {}
  ELSE get_credentials_by_mcp_session(Store(sessions, mcp_map), sid)

C1_Gate(a, pick, fault, ans, r) ==
  /\ \A c \in r.result : a.req \subseteq c.scopes
  /\ \A c \in SessionBundle(a.sid) \cup r.trace.found :
       ~(a.req \subseteq c.scopes) => r.result = {} /\ r.raised = "none"

\* C1: in every reachable state, every get_credentials call that finds a
\* bundle whose granted scopes do not include every required scope returns
\* None, whatever the session id, email, user id, mode, fault or answer of
\* the token endpoint; no bundle returned lacks a required scope.
C1_ScopeGate ==
  \A k \in GcCalls : C1_Gate(k[1], k[2], k[3], k[4], k[5])

C1_Case(a, pick, fault, ans, r) ==
  /\ \E c \in r.trace.found : ~(a.req \subseteq c.scopes) /\ Valid(c)
  /\ r.result = {}

\* C1 witness: a call finds a valid bundle that lacks a required scope and
\* returns None.
C1_Witness ==
  \E k \in GcCalls : C1_Case(k[1], k[2], k[3], k[4], k[5])

\* The durable blobs and the session records that hold access token tok.
BlobsWith(dur, tok) ==
  {i \in DOMAIN dur : dur[i].kind = "json" /\ dur[i].data.token = tok}

RecordsWith(st, tok) ==
  {e \in DOMAIN st.sessions : st.sessions[e].access_token = tok}

C2_Refreshes(a, pick, fault, ans, r) ==
  /\ \A c \in r.trace.found :
       /\ a.req \subseteq c.scopes
       /\ Expired(c)
       /\ c.refresh_token # None
       => r.trace.refresh # "none"
  /\ r.trace.refresh = "ok" =>
       \E c \in r.trace.found, c1 \in r.result :
         /\ c1.token # c.token
         /\ c1.expiry > now
         /\ \E i \in BlobsWith(r.durable, c1.token) :
              /\ ParseExpiry(r.durable[i].data.expiry) > now
              /\ r.durable[i].data.client_id = c.client_id
              /\ r.durable[i].data.client_secret = c.client_secret
         /\ \E e \in RecordsWith(r.store, c1.token) :
              /\ r.store.sessions[e].expiry > now
              /\ r.store.sessions[e].client_id = c.client_id
              /\ r.store.sessions[e].client_secret = c.client_secret

\* C2: every get_credentials call that finds an expired bundle with
\* sufficient scopes and a refresh token asks the token endpoint for a
\* refresh, and when the endpoint accepts, the call returns the refreshed
\* bundle and leaves the new access token, a future expiry and the old
\* client id and secret in durable storage and in the session store.
C2_RefreshPersisted ==
  \A k \in GcCalls : C2_Refreshes(k[1], k[2], k[3], k[4], k[5])

\* The same call made again in the storage the call r left behind.
Again(a, pick, r) ==
  get_credentials(r.store, r.durable, credentials_base_dir, single_user_mode,
                  a.email, a.req, a.csp, a.sid, a.uid, NoAnswer, "none", pick)

C3_Purges(a, pick, fault, ans, r) ==
  r.trace.refresh = "RefreshError" =>
    /\ r.result = {}
    /\ \A c \in r.trace.found :
         /\ BlobsWith(r.durable, c.token) = {}
         /\ RecordsWith(r.store, c.token) = {}
    /\ Again(a, pick, r).trace.found = {}

\* C3: every get_credentials call whose refresh is rejected with
\* RefreshError returns None and leaves the bundle in neither durable
\* storage nor the session store, so that the same call made again finds no
\* bundle.
C3_RejectedPurged ==
  \A k \in GcCalls : C3_Purges(k[1], k[2], k[3], k[4], k[5])

C4_ResolverKeeps(a, pick, fault, ans, r) ==
  r.trace.refresh = "transient" =>
    /\ r.result = {}
    /\ r.store = Store(sessions, mcp_map)
    /\ r.durable = durable

\* A refresh of recovery rec failed transiently: every refresh tried before
\* the one that decided the scan did, and all of them when none decided it.
FailedTransiently(rec) ==
  \/ rec.ending = "transient"
  \/ rec.ending \in {"ok", "RefreshError"} /\ Len(rec.tried) >= 2

C4_VerifierKeeps ==
  \A token \in PresentedTokens :
    \A rec \in Recoveries(Store(sessions, mcp_map), durable, issued, token) :
      FailedTransiently(rec) =>
        /\ rec.token = NoToken
        /\ rec.store = Store(sessions, mcp_map)
        /\ rec.durable = durable

\* C4: whenever a refresh attempted by get_credentials or by the recovery
\* scan of the token verifier fails transiently, the call yields no
\* credential and no new token and leaves the session store and durable
\* storage as they were.
C4_TransientKeeps ==
  /\ \A k \in GcCalls : C4_ResolverKeeps(k[1], k[2], k[3], k[4], k[5])
  /\ C4_VerifierKeeps

\* C4, the resolver alone: a get_credentials call whose refresh fails
\* transiently returns None and leaves both layers as they were.
C4_ResolverAlone ==
  \A k \in GcCalls : C4_ResolverKeeps(k[1], k[2], k[3], k[4], k[5])

C5_Quiet(a, pick, fault, ans, r) ==
  /\ r.raised = "none"
  /\ fault # "none" => r.result = {}
  /\ \A i \in r.trace.reads \cap DOMAIN durable :
       durable[i].kind = "corrupt" => r.result = {}

\* C5: no get_credentials call raises; a call that meets a storage fault
\* or reads a malformed blob under the identifier it looks up returns None.
C5_NeverRaises ==
  \A k \in GcCalls : C5_Quiet(k[1], k[2], k[3], k[4], k[5])

\* The persisted record the bundle checked by call r was built from: its
\* access token, refresh token and expiry as stored.
Persisted(a, pick, r) ==
  IF r.trace.source \in {"store", "session"}
  THEN LET info == sessions[mcp_map[a.sid]]
       IN [token |-> info.access_token, refresh_token |-> info.refresh_token,
           expiry |-> info.expiry]
  ELSE LET i == IF r.trace.source = "scan" THEN pick
                ELSE CHOOSE x \in r.trace.reads : TRUE
       IN [token |-> durable[i].data.token,
           refresh_token |-> durable[i].data.refresh_token,
           expiry |-> ParseExpiry(durable[i].data.expiry)]

Lapsed(rec) == rec.expiry # NoExpiry /\ now >= rec.expiry

C6_Fresh(a, pick, fault, ans, r) ==
  r.result # {} /\ r.trace.refresh # "ok" => ~Lapsed(Persisted(a, pick, r))

\* C6: no get_credentials call returns, without a successful refresh, a
\* bundle whose persisted expiry lies in the past, whether the bundle came
\* from the session store, the per-identity file or the single-user scan.
C6_NoStaleBundle ==
  \A k \in GcCalls : C6_Fresh(k[1], k[2], k[3], k[4], k[5])

Dead(rec) ==
  /\ rec.refresh_token = None
  /\ rec.token = NoToken \/ Lapsed(rec)

C7_Rejects(a, pick, fault, ans, r) ==
  /\ r.trace.found # {} /\ Dead(Persisted(a, pick, r)) =>
       r.result = {} /\ r.raised = "none"
  /\ \A c \in SessionBundle(a.sid) :
       c.refresh_token = None /\ ~Valid(c) => r.result = {} /\ r.raised = "none"

\* C7: every get_credentials call that finds a bundle with neither a valid
\* access token nor a refresh token returns None and does not raise,
\* whatever the source of the bundle.
C7_DeadBundleNone ==
  \A k \in GcCalls : C7_Rejects(k[1], k[2], k[3], k[4], k[5])

C8_Ordered(a, pick, fault, ans, r) ==
  /\ SessionBundle(a.sid) # {} =>
       r.trace.found = SessionBundle(a.sid) /\ r.trace.reads = {}
  /\ SessionBundle(a.sid) = {} /\ ~single_user_mode =>
       r.trace.reads \subseteq {IF a.uid # None THEN a.uid ELSE a.email}
  /\ r.trace.found = {} => r.result = {}

\* C8: in every get_credentials call, a session id that resolves in the
\* session store makes that bundle the one checked and durable storage is
\* not read; otherwise, outside single-user mode, durable storage is read
\* under the user id when given and under the email only when not; a call
\* that finds no bundle returns None.
C8_SourceOrder ==
  \A k \in GcCalls : C8_Ordered(k[1], k[2], k[3], k[4], k[5])

C9_Caches(a, pick, fault, ans, r) ==
  /\ a.sid # None
  /\ SessionBundle(a.sid) = {}
  /\ r.trace.source = "file"
  /\ r.result # {}
  => \E c \in get_credentials_by_mcp_session(r.store, a.sid) :
       \E c1 \in r.result : c.token = c1.token

\* C9: after a get_credentials call with a session id unknown to the session
\* store has found and returned the bundle of durable storage, the session
\* store resolves that session id to the bundle.
C9_DurableHitCached ==
  \A k \in GcCalls : C9_Caches(k[1], k[2], k[3], k[4], k[5])

C10_Persists(i, r) ==
  r.raised = "none" =>
    \E c \in r.result :
      /\ i.uid \in DOMAIN r.durable
      /\ r.durable[i.uid].kind = "json"
      /\ r.durable[i.uid].data.token = c.token
      /\ r.durable[i.uid].data.refresh_token = c.refresh_token
      /\ ParseExpiry(r.durable[i.uid].data.expiry) = c.expiry
      /\ r.durable[i.uid].data.user_email = i.account
      /\ i.account \in DOMAIN r.store.sessions
      /\ r.store.sessions[i.account].access_token = c.token
      /\ r.store.sessions[i.account].refresh_token = c.refresh_token
      /\ i.sid # None =>
           /\ i.sid \in DOMAIN r.store.mcp_map
           /\ r.store.mcp_map[i.sid] = i.account

\* C10: in every reachable state, every handle_auth_callback call that
\* returns (code exchanged, email resolved, user id supplied, bundle saved)
\* leaves the bundle in durable storage under the supplied user id and in the
\* session store under the resolved email, and a session id that was supplied
\* is bound to that email in the mcp-session index.
C10_CallbackPersists == \A i \in CbInputs : C10_Persists(i, CbCall(i))

\* C10 witness: a callback with a session id has completed: the token Google
\* minted for the code is in durable storage under the user id and in the
\* record of the email the session id is bound to.
C10_Witness ==
  \E n \in DOMAIN issued, uid \in UserIds \cap DOMAIN durable,
     sid \in Sids \cap DOMAIN mcp_map :
    /\ issued[n].grant = "code"
    /\ durable[uid].kind = "json"
    /\ durable[uid].data.token = issued[n].token
    /\ mcp_map[sid] = issued[n].account
    /\ mcp_map[sid] \in DOMAIN sessions
    /\ sessions[mcp_map[sid]].access_token = issued[n].token

C12_StateChecked ==
  \A i \in CbInputs :
    i.state \notin auth_urls =>
      \E r \in {CbCall(i)} :
        /\ r.raised # "none"
        /\ r.store = Store(sessions, mcp_map)
        /\ r.durable = durable

\* The recoveries of verdict v: its steps whose introspection failed.
RecoverySteps(v) == SelectSeq(v.steps, LAMBDA step : step.info = "non200")

\* C13: in every verify_token call for a presented opaque token, at most one
\* recovery is attempted (one search of the session store) and at most one
\* refresh is tried in it, and only the token that recovery returned is
\* verified again.
C13_OneRecovery ==
  \A token \in PresentedTokens, ctx_sid \in Sids \cup {None} :
    IsOpaque(token) =>
      \A v \in Verdicts(token, ctx_sid) :
        /\ Len(RecoverySteps(v)) <= 1
        /\ \A n \in DOMAIN v.steps : Len(v.steps[n].tried) <= 1
        /\ Len(v.steps) <= 2

\* The durable blobs persisted for user e.
BlobsOf(dur, e) ==
  {i \in DOMAIN dur : dur[i].kind = "json" /\ dur[i].data.user_email = e}

\* C14: whenever the recovery scan of the verifier ends with a refresh
\* rejected by RefreshError, the user whose refresh was rejected has no record
\* in the session store and no blob in durable storage, and a recovery for
\* the same token tries no refresh for that user again.
C14_VerifierPurges ==
  \A token \in PresentedTokens :
    \A rec \in Recoveries(Store(sessions, mcp_map), durable, issued, token) :
      rec.ending = "RefreshError" =>
        \E e \in {rec.tried[Len(rec.tried)]} :
          /\ e \notin DOMAIN rec.store.sessions
          /\ BlobsOf(rec.durable, e) = {}
          /\ \A again \in Recoveries(rec.store, rec.durable, issued, token) :
               \A n \in DOMAIN again.tried : again.tried[n] # e

\* C15: no verify_token call, for an opaque or a signed token, whatever
\* introspection, the JWT verifier, the token endpoint and the session store
\* answer, lets an exception escape, and a call that met a failure returns
\* no principal.
C15_VerifierQuiet ==
  \A token \in PresentedTokens, ctx_sid \in Sids \cup {None} :
    \A v \in Verdicts(token, ctx_sid) :
      /\ v.raised = "none"
      /\ v.steps[Len(v.steps)].ending = "store-error" => v.principal = None

\* Verdict v attempted no refresh: no recovery of it matched a session.
NoRefreshTried(v) == \A n \in DOMAIN v.steps : v.steps[n].tried = <<>>

C16_Cached(v) ==
  v.principal # None =>
    /\ v.principal \in DOMAIN v.store.sessions
    /\ v.store.sessions[v.principal].access_token = v.token

C17_LockHeld == scan.pc # "idle" => lock = LoopThread

\* C17: while a recovery scan is in progress, every step that is not a step
\* of the scan leaves the session store as it is: no store or remove of
\* another task or thread takes effect between two steps of the scan.
C17_ScanExclusive ==
  [][scan.pc # "idle" /\ scan' = scan => UNCHANGED <<sessions, mcp_map>>]_vars

\* C18: every POST /auth/revoke that resolves a user and answers success
\* leaves no record of that user in the session store and no durable blob
\* persisted for that user, whatever Google's revoke endpoint answered.
C18_RevokeCleans ==
  \A i \in RevokeInputs :
    \A r \in RevokeCall(i) :
      r.status = 200 =>
        /\ r.email \notin DOMAIN r.store.sessions
        /\ BlobsOf(r.durable, r.email) = {}

\* The fields of a bundle that durable storage keeps.
SameBundle(a, b) ==
  /\ a.token = b.token
  /\ a.refresh_token = b.refresh_token
  /\ a.token_uri = b.token_uri
  /\ a.client_id = b.client_id
  /\ a.client_secret = b.client_secret
  /\ a.scopes = b.scopes
  /\ a.expiry = b.expiry

\* Bundle c saved under identifier i at location L1 comes back equal, and
\* still equal once it has been carried to location L2 and back, each time
\* with a load from one location and a save to the other.
C19_Carried(c, i, L1, L2) ==
  LET f1 == SaveAt(durable, i, L1, "e1", c)
      x == LoadAt(f1, i, L1, "none")
  IN /\ x.raised = "none"
     /\ \E b1 \in x.creds :
          /\ SameBundle(b1, c)
          /\ LET f2 == SaveAt(f1, i, L2, "e1", b1)
                 y == LoadAt(f2, i, L2, "none")
             IN /\ y.raised = "none"
                /\ \E b2 \in y.creds :
                     /\ SameBundle(b2, c)
                     /\ LET f3 == SaveAt(f2, i, L1, "e1", b2)
                            z == LoadAt(f3, i, L1, "none")
                        IN /\ z.raised = "none"
                           /\ \E b3 \in z.creds : SameBundle(b3, c)

\* C19: for every bundle, with or without refresh token and expiry, every
\* identifier and every backend, a load after a save returns a bundle equal
\* in token, refresh token, token URI, client id, client secret, scopes and
\* expiry, and a bundle moved from one backend to another and back by load
\* and save is still equal in these fields.
C19_RoundTrip ==
  \A c \in Bundles, i \in StorageIds, L1 \in Locations, L2 \in Locations :
    C19_Carried(c, i, L1, L2)

\* C19 witness: a bundle without refresh token and expiry is stored in the
\* local directory and in the bucket, a bundle with both in the bucket.
C19_Witness ==
  \E i \in StorageIds, j \in StorageIds :
    /\ Places[LocalDir][i] \in DOMAIN durable
    /\ Places[S3Dir][i] \in DOMAIN durable
    /\ Places[S3Dir2][j] \in DOMAIN durable
    /\ durable[Places[LocalDir][i]].data.refresh_token = None
    /\ durable[Places[LocalDir][i]].data.expiry.kind = "null"
    /\ durable[Places[S3Dir][i]] = durable[Places[LocalDir][i]]
    /\ durable[Places[S3Dir2][j]].data.refresh_token # None
    /\ durable[Places[S3Dir2][j]].data.expiry.kind = "iso"

\* What a load of identifier i at location L finds in files.
Found(files, i, L) == LoadAt(files, i, L, "none")

\* files and files2 answer alike for every identifier and location but
\* identifier i at location L.
SameElsewhere(files, files2, i, L) ==
  \A L2 \in Locations, i2 \in StorageIds :
    <<L2, i2>> # <<L, i>> => Found(files2, i2, L2) = Found(files, i2, L2)

\* C20: in every state of storage, a save for (L, i) makes the load of
\* (L, i) return the bundle saved, a delete of (L, i) makes it return None,
\* and neither changes what a load of another identifier or location
\* returns; a load changes nothing. So a load returns the bundle of the
\* most recent save unless a delete followed it.
C20_LastWriteWins ==
  \A L \in Locations, i \in StorageIds :
    /\ \A c \in SavedBundles :
         LET f2 == SaveAt(durable, i, L, "e1", c) IN
         /\ Found(f2, i, L).raised = "none"
         /\ \E b \in Found(f2, i, L).creds : SameBundle(b, c)
         /\ SameElsewhere(durable, f2, i, L)
    /\ LET f2 == DeleteAt(durable, i, L) IN
       /\ Found(f2, i, L) = Loaded({}, "none")
       /\ SameElsewhere(durable, f2, i, L)

\* C20 witness: one identifier holds different bundles at two locations and
\* none at the third, while another identifier holds a bundle there.
C20_Witness ==
  \E i \in StorageIds, j \in StorageIds :
    /\ i # j
    /\ Found(durable, i, LocalDir).creds # {}
    /\ Found(durable, i, S3Dir).creds # {}
    /\ Found(durable, i, LocalDir) # Found(durable, i, S3Dir)
    /\ Found(durable, i, S3Dir2) = Loaded({}, "none")
    /\ Found(durable, j, S3Dir2).creds # {}

\* C21: on both backends, deleting a blob that is absent reports success
\* and leaves storage as it was, and so does deleting it a second time.
C21_DeleteIdempotent ==
  \A L \in Locations, i \in StorageIds :
    Places[L][i] \notin DOMAIN durable =>
      LET f2 == DeleteAt(durable, i, L) IN
      /\ delete_returns(Under(durable, L), i, L)
      /\ f2 = durable
      /\ delete_returns(Under(f2, L), i, L)
      /\ DeleteAt(f2, i, L) = durable

\* Key is under the directory s3_dir: it starts with the prefix of s3_dir
\* followed by a slash.
C22_Under(key, s3_dir) ==
  LET prefix == parse_s3_path(s3_dir)[2]
      dir == IF EndsWith(prefix, "/") THEN SubSeq(prefix, 1, Len(prefix) - 1)
             ELSE prefix
  IN StartsWith(key, dir \o <<"/">>)

\* The keys of the objects of the bucket of s3_dir.
C22_Keys(s3_dir) ==
  {pl.key : pl \in {q \in DOMAIN durable :
                      q.backend = "s3" /\ q.bucket = parse_s3_path(s3_dir)[1]}}

\* Every listing of s3_dir that meets no fault returns, each once, the full
\* paths of the keys under s3_dir that satisfy wanted.
C22_Lists(s3_dir, wanted) ==
  \A page_size \in 1..MaxPage, order \in Perms(Matching(durable, s3_dir)) :
    LET r == s3_list_json_files(durable, s3_dir, page_size, order, "none") IN
    /\ r.raised = "none"
    /\ {r.files[n] : n \in DOMAIN r.files}
         = {S3Scheme \o parse_s3_path(s3_dir)[1] \o <<"/">> \o k : k \in wanted}
    /\ Len(r.files) = Cardinality(wanted)

C23_Scheme(p) ==
  /\ p # NonePath
  /\ Len(p) >= Len(S3Scheme)
  /\ SubSeq(p, 1, Len(S3Scheme)) \in {S3Scheme, <<"S", "3", ":", "/", "/">>}

C24_Other(base) ==
  IF EndsWith(base, "/") THEN SubSeq(base, 1, Len(base) - 1)
  ELSE base \o <<"/">>

\* The base is a well-formed location: a string without blanks around it
\* that, when it names the object store, names a bucket.
C24_WellFormed(base) ==
  /\ base \notin {NonePath, <<>>}
  /\ Strip(base) = base
  /\ is_s3_path(base) => parse_s3_path(base)[1] # <<>>

C25_OneClient ==
  /\ s3_client.built <= 1
  /\ \A w \in Workers :
       workers[w].pc = "returned" => workers[w].client = s3_client.cached

\* C26: a recovery scan that ends after a refresh was rejected with
\* RefreshError has tried every session that matched the failed token, in
\* the exact pass or in the prefix pass: the rejection of one session does
\* not keep the scan from the sessions that remain.
C26_ScanContinues ==
  \A token \in {t \in PresentedTokens : IsOpaque(t)} :
    \A rec \in Recoveries(Store(sessions, mcp_map), durable, issued, token) :
      rec.ending = "RefreshError" =>
        \A e \in DOMAIN sessions :
          (\/ ExactMatch(Store(sessions, mcp_map), token, e)
           \/ PrefixMatch(Store(sessions, mcp_map), token, e))
            => \E n \in DOMAIN rec.tried : rec.tried[n] = e

C27_SameIdentifier(a, pick, fault, ans, r) ==
  r.trace.source = "file" /\ r.trace.refresh = "ok" =>
    \A I \in r.trace.reads, c1 \in r.result :
      /\ I \in DOMAIN r.durable
      /\ r.durable[I].kind = "json"
      /\ Decode(r.durable[I]).token = c1.token
      /\ DOMAIN r.durable \subseteq DOMAIN durable

\* C27: every get_credentials call that loads a bundle from durable storage
\* under an identifier and refreshes it leaves the refreshed bundle under
\* that identifier, so that a load of it returns the new access token, and
\* creates no blob under another identifier.
C27_RewrittenInPlace ==
  \A k \in GcCalls : C27_SameIdentifier(k[1], k[2], k[3], k[4], k[5])

\* The records of store st that hold a refresh token.
Refreshable(st) ==
  {e \in DOMAIN st.sessions : st.sessions[e].refresh_token # None}

\* Store st1, left by a call made in the current state, still has a refresh
\* token in every record that had one and was not removed.
C28_Kept(st1) ==
  Refreshable(Store(sessions, mcp_map)) \cap DOMAIN st1.sessions
    \subseteq Refreshable(st1)

\* C28: every verify_token call and every get_credentials call leaves a
\* refresh token in each session-store record that held one before the call
\* and is still there after it; in particular a verify_token call that
\* returns a principal leaves that user's record refreshable if it was.
C28_StaysRefreshable ==
  /\ \A token \in PresentedTokens, ctx_sid \in Sids \cup {None} :
       \A v \in Verdicts(token, ctx_sid) : C28_Kept(v.store)
  /\ \A k \in GcCalls : C28_Kept(k[5].store)

\* What auth_revoke removed, after its verification step left store st and
\* durable storage dur, is at most the record and the blob of user who.
C30_RemovedOnly(r, st, dur, who) ==
  /\ DOMAIN st.sessions \ DOMAIN r.store.sessions \subseteq who
  /\ DOMAIN dur \ DOMAIN r.durable \subseteq who

\* C30: every POST /auth/revoke removes a session-store record or a durable
\* blob only of the user its bearer token was verified as belonging to; a
\* request without a token, or whose token failed verification, removes
\* nothing.
C30_RevokeVerifiedOnly ==
  \A i \in RevokeInputs :
    IF i.token = NoToken
    THEN \A r \in RevokeCall(i) :
           C30_RemovedOnly(r, Store(sessions, mcp_map), durable, {})
    ELSE \A v \in Verdicts(i.token, None) :
           C30_RemovedOnly(
             RevokeFor(RevokeEmail(v, i.token, i.email), v.store, v.durable,
                       issued \o v.minted, v.minted, i.fault, i.answer),
             v.store, v.durable,
             IF v.principal # None THEN {v.principal} ELSE {})

\* The calls of two threads that both returned a refreshed bundle for
\* identity e.
C29_BothDone(a, b, e) ==
  /\ a # b
  /\ workers[a].pc = "done" /\ workers[b].pc = "done"
  /\ workers[a].user_google_email = e /\ workers[b].user_google_email = e

C29_Tokens(a, b) ==
  {c.token : c \in workers[a].credentials \cup workers[b].credentials}

\* C29: when two get_credentials calls for one identity have both refreshed
\* and returned, and the blob and the session-store record of that identity
\* are the ones these calls wrote, both hold the same access token.
C29_OneRefreshWins ==
  \A a \in Workers, b \in Workers, e \in Emails :
    /\ C29_BothDone(a, b, e)
    /\ e \in DOMAIN durable /\ durable[e].kind = "json"
    /\ e \in DOMAIN sessions
    /\ Decode(durable[e]).token \in C29_Tokens(a, b)
    /\ sessions[e].access_token \in C29_Tokens(a, b)
    => Decode(durable[e]).token = sessions[e].access_token

====
